---------------------------- MODULE Spec2Model ----------------------------
(***************************************************************************)
(* pg_quota: the shared-memory quota store (fs_model.c) and the two        *)
(* enforcement hooks (enforcement.c), as a state machine of backend and    *)
(* worker processes that step through the functions' statements.           *)
(***************************************************************************)
EXTENDS Integers, Sequences, FiniteSets, TLC

(* ------------------------------ bounds --------------------------------- *)
\* top-level calls (Update, Reset, status, hooks) in a run whose calls overlap
MaxCalls == 3
\* top-level calls in a run whose calls follow one another
MaxSerialCalls == 4
\* top-level calls in a run around one multi-table statement
MaxStatementCalls == 3
\* top-level calls in a run in which init_quota_enforcement is called again
MaxHookCalls == 2
\* top-level calls in a run under fair scheduling
MaxFairCalls == 2
\* longest range table handed to the permission hook in a run around one
\* multi-table statement; the other runs hand it one-entry tables
MaxRT == 2
\* most hash elements the shared segment can hold beyond the sized number
MaxSpare == 1

(* -------------------------- program constants -------------------------- *)
\* #define MAX_DB_ROLE_ENTRIES (1024 in the source, scaled down here so
\* that a full table is reachable)
MAX_DB_ROLE_ENTRIES == 2
\* the quota value get_quota_status reports as NULL
NoLimit == -1
InvalidOid == 0

Procs == {1, 2}
Entities == {1, 2}         \* Oids used as relid / owner
Dbs == {1, 2}              \* database Oids
Quotas == {-2, -1, 1}      \* int64 newquota
Sizes == {1, 2}            \* off_t newtotalsize

\* values of a hook variable: no hook, the hook function of a module loaded
\* earlier, and quota_check_ExecCheckRTPerms (or quota_check_SmgrExtend)
NoHook == "NULL"
earlier_hook == "earlier_hook"
quota_check == "quota_check"

LW_EXCLUSIVE == "LW_EXCLUSIVE"
LW_SHARED == "LW_SHARED"

\* struct RelationSizeEntryKey
RelationSizeEntryKey == [relid : Entities, dbid : Dbs]

MakeKey(relid, dbid) == [relid |-> relid, dbid |-> dbid]

VARIABLES
  relation_totals_map,  \* the shared hash table: key -> RelationSizeEntry
  shmem_found,          \* the "pg_quota" shared struct already exists
  hash_nelem,           \* hash elements allocated so far (in use or free)
  shmem_full,           \* an allocation in the shared segment has failed
  attached,             \* per process: relation_totals_map != NULL
  MyDatabaseId,         \* per process: the database it is connected to
  role,                 \* per process: quota worker, client backend or any
  lock,                 \* shared->lock: set of <<process, mode>> holders
  pc,                   \* per process: position in the running function
  loc,                  \* per process: arguments and local variables, and
                        \* (before) the table as it was when the process
                        \* took the lock exclusively
  ncalls,               \* number of top-level calls started
  schedule,             \* "concurrent", "fair" (concurrent, every process
                        \* that can take a step of a call takes one in the
                        \* end), "serial" (no two calls overlap),
                        \* "statement" (serial, with multi-table statements)
                        \* or "hooks" (serial, the library's initialisation
                        \* may run again)
  hook,                 \* per process: ExecutorCheckPerms_hook, or SmgrExtend_hook
                        \* in the build with the extend hook
  prev_hook,            \* per process: prev_ExecutorCheckPerms_hook, or
                        \* prev_SmgrExtend_hook
  hook_installed,       \* per process: ExecutorCheckPerms_hook_installed, or
                        \* SmgrExtend_hook_installed
  last,                 \* history: key -> arguments of the last completed Update
  denied                \* history: keys for which CheckQuota has returned false

hookvars == <<hook, prev_hook, hook_installed>>

vars == <<relation_totals_map, shmem_found, hash_nelem, shmem_full, attached,
          MyDatabaseId, role, lock, pc, loc, ncalls, schedule, last, denied,
          hookvars>>

\* a process between calls: every local at its default.  prev_called: the
\* hook function has called the saved previous hook; earlier_allows: what the
\* earlier module's hook function answers for the arguments of this call
NoLocals ==
  [op |-> "none",
   relid |-> InvalidOid, newquota |-> 0, newtotalsize |-> 0, found |-> FALSE,
   iter |-> {}, values |-> <<>>, rows |-> <<>>,
   rangeTable |-> <<>>, ereport_on_violation |-> FALSE, i |-> 0,
   owner |-> InvalidOid,
   chkrelid |-> InvalidOid, result |-> TRUE, mapnull |-> FALSE, seen |-> <<>>,
   log |-> <<>>, before |-> <<>>, nentries |-> 0,
   prev_called |-> FALSE, earlier_allows |-> TRUE,
   outcome |-> "none"]

(* ------------------------------ LWLock --------------------------------- *)
Holders(mode) == {h \in lock : h[2] = mode}

LWLockFreeMutNoExclusion(mode) == TRUE

LWLockFreeMutReadersPassWriter(mode) ==
  IF mode = LW_EXCLUSIVE THEN lock = {} ELSE TRUE

LWLockFreeMutWriterPassesReaders(mode) == Holders(LW_EXCLUSIVE) = {}

\* LWLockAcquire blocks until the lock is free in the requested mode
LWLockFree(mode) ==
  IF mode = LW_EXCLUSIVE THEN lock = {} ELSE Holders(LW_EXCLUSIVE) = {}

LWLockAcquire(p, mode) == lock \cup {<<p, mode>>}

LWLockRelease(p) == {h \in lock : h[1] # p}

LWLockReleaseAllMutKeeps(p) == lock

\* the host's error recovery drops every LWLock the process holds
LWLockReleaseAll(p) == LWLockRelease(p)

HoldsLock(p) == \E h \in lock : h[1] = p

(* ------------------------------- Init ---------------------------------- *)
\* the hook variables when the library is loaded: the first process has a
\* module loaded before this one that set the hook, the second has none; the
\* statics are zero
InitHookVars ==
  /\ hook = [p \in Procs |-> IF p = 1 THEN earlier_hook ELSE NoHook]
  /\ prev_hook = [p \in Procs |-> NoHook]
  /\ hook_installed = [p \in Procs |-> FALSE]

InitStore ==
  /\ InitHookVars
  /\ relation_totals_map = <<>>
  /\ shmem_found = FALSE
  /\ hash_nelem = MAX_DB_ROLE_ENTRIES
  /\ shmem_full = FALSE
  /\ attached = [p \in Procs |-> FALSE]
  /\ lock = {}
  /\ pc = [p \in Procs |-> "idle"]
  /\ loc = [p \in Procs |-> NoLocals]
  /\ ncalls = 0
  /\ last = <<>>
  /\ denied = {}

\* processes run concurrently: two quota workers (init_fs_model and
\* UpdateQuotaRefreshRelationSize), or a client backend (hooks and status
\* view) next to a process that makes calls of every kind
Init ==
  /\ InitStore
  /\ schedule = "concurrent"
  /\ MyDatabaseId \in {f \in [Procs -> Dbs] : f[1] = 1}
  /\ role \in {[p \in Procs |-> "worker"],
               [p \in Procs |-> IF p = 1 THEN "any" ELSE "backend"]}

\* one call at a time; the processes serve different databases, the first
\* makes calls of every kind and the second is the other database's worker
InitSerial ==
  /\ InitStore
  /\ schedule = "serial"
  /\ MyDatabaseId = [p \in Procs |-> p]
  /\ role = [p \in Procs |-> IF p = 1 THEN "any" ELSE "worker"]

\* the same, with statements that have several target tables
InitStatement ==
  /\ InitStore
  /\ schedule = "statement"
  /\ MyDatabaseId = [p \in Procs |-> p]
  /\ role = [p \in Procs |-> IF p = 1 THEN "any" ELSE "worker"]

\* what an Update(newquota, newtotalsize) that ran to its end left in an entry
LeftBehind(newquota, newtotalsize) ==
  [quota |-> newquota, totalsize |-> newtotalsize,
   qsrc |-> <<newquota, newtotalsize>>, tsrc |-> <<newquota, newtotalsize>>]

\* a server whose shared memory holds the table earlier workers filled before
\* they died (the case init_fs_model is there for); the processes are new
InitLeftBehind ==
  /\ InitHookVars
  /\ relation_totals_map =
       (MakeKey(1, 1) :> LeftBehind(1, 2)) @@ (MakeKey(1, 2) :> LeftBehind(-1, 1))
  /\ last = (MakeKey(1, 1) :> [quota |-> 1, totalsize |-> 2])
               @@ (MakeKey(1, 2) :> [quota |-> -1, totalsize |-> 1])
  /\ shmem_found = TRUE
  /\ hash_nelem = MAX_DB_ROLE_ENTRIES
  /\ shmem_full = FALSE
  /\ attached = [p \in Procs |-> FALSE]
  /\ lock = {}
  /\ pc = [p \in Procs |-> "idle"]
  /\ loc = [p \in Procs |-> NoLocals]
  /\ ncalls = 0
  /\ denied = {}

\* calls overlap and every process is scheduled again and again; both
\* processes serve the first database
InitFair ==
  /\ InitLeftBehind
  /\ schedule = "fair"
  /\ MyDatabaseId = [p \in Procs |-> 1]
  /\ role = [p \in Procs |-> IF p = 1 THEN "any" ELSE "worker"]

\* one call at a time, and init_quota_enforcement may be called again
InitHooks ==
  /\ InitLeftBehind
  /\ schedule = "hooks"
  /\ MyDatabaseId = [p \in Procs |-> p]
  /\ role = [p \in Procs |-> IF p = 1 THEN "any" ELSE "worker"]

CallLimit ==
  CASE schedule = "concurrent" -> MaxCalls
    [] schedule = "hooks" -> MaxHookCalls
    [] schedule = "fair" -> MaxFairCalls
    [] schedule = "serial" -> MaxSerialCalls
    [] schedule = "statement" -> MaxStatementCalls

IsWorker(p) == role[p] \in {"worker", "any"}
IsBackend(p) == role[p] \in {"backend", "any"}

\* the library's initialisation has run in p
Loaded(p) == hook[p] = quota_check

\* a process may start a top-level call
CanStart(p) ==
  /\ pc[p] = "idle"
  /\ Loaded(p)
  /\ ncalls < CallLimit
  /\ schedule \in {"serial", "statement", "hooks"} =>
       \A q \in Procs : pc[q] = "idle"

\* remove key k from a table
Without(f, k) == [x \in DOMAIN f \ {k} |-> f[x]]

(* ----------------------- init_quota_enforcement ------------------------ *)
\* the function has no assignment to ExecutorCheckPerms_hook_installed (or
\* SmgrExtend_hook_installed): the flag is after the call what it was before
InstalledAfterInit(installed) == installed

\* if (!..._hook_installed) { prev_..._hook = ..._hook; ..._hook = quota_check_... }
\* The two builds of enforcement.c have the same function, on the variables
\* of their hook.  The library's load calls it once before the process does
\* anything else; further calls are looked at in the runs made for them.
init_quota_enforcement(p) ==
  /\ pc[p] = "idle"
  /\ schedule = "hooks" \/ ~Loaded(p)
  /\ IF ~hook_installed[p]
     THEN /\ prev_hook' = [prev_hook EXCEPT ![p] = hook[p]]
          /\ hook' = [hook EXCEPT ![p] = quota_check]
     ELSE UNCHANGED <<hook, prev_hook>>
  /\ hook_installed' = [hook_installed EXCEPT ![p] = InstalledAfterInit(@)]
  /\ UNCHANGED <<relation_totals_map, shmem_found, hash_nelem, shmem_full, attached,
                 MyDatabaseId, lock, pc, loc, ncalls, last, denied, schedule, role>>

(* --------------------- pg_quota_shmem_startup -------------------------- *)
ShmemInitHashMutAlwaysCreate(found, map) == <<>>

\* ShmemInitHash: the table of that name when the segment has one, else a
\* new, empty table
ShmemInitHash(found, map) == IF found THEN map ELSE <<>>

\* shared->lock = &(GetNamedLWLockTranche("pg_quota"))->lock: the address of
\* the tranche's lock, which the postmaster initialised; taking it leaves the
\* lock's holders as they are
GetNamedLWLockTranche(holders) == holders

\* Attach the process to the shared struct and hash table, creating them
\* when they do not exist yet; an existing table is reused as it is.  found
\* is ShmemInitStruct's answer, nentries the number of entries the startup came
\* upon.
pg_quota_shmem_startup(p) ==
  /\ pc[p] = "idle"
  /\ Loaded(p)
  /\ ~attached[p]
  /\ attached' = [attached EXCEPT ![p] = TRUE]
  /\ shmem_found' = TRUE
  /\ relation_totals_map' = ShmemInitHash(shmem_found, relation_totals_map)
  /\ lock' = GetNamedLWLockTranche(lock)
  /\ loc' = [loc EXCEPT ![p] = [NoLocals EXCEPT !.op = "startup",
               !.found = shmem_found,
               !.nentries = Cardinality(DOMAIN relation_totals_map),
               !.outcome = "ok"]]
  /\ pc' = [pc EXCEPT ![p] = "done"]
  /\ UNCHANGED <<hash_nelem, shmem_full, MyDatabaseId,
                 ncalls, last, denied, schedule, role, hookvars>>

(* ------------------- UpdateQuotaRefreshRelationSize -------------------- *)
UpdateKeyMutNoScope(p) == MakeKey(loc[p].relid, 1)

\* key.relid = relid; key.dbid = MyDatabaseId
UpdateKey(p) == MakeKey(loc[p].relid, MyDatabaseId[p])

Update_Call(p) ==
  /\ CanStart(p)
  /\ IsWorker(p)
  /\ attached[p]
  /\ \E relid \in Entities, newquota \in Quotas, newtotalsize \in Sizes :
       loc' = [loc EXCEPT ![p] = [NoLocals EXCEPT !.op = "update",
                 !.relid = relid, !.newquota = newquota,
                 !.newtotalsize = newtotalsize]]
  /\ pc' = [pc EXCEPT ![p] = "upd_acq"]
  /\ ncalls' = ncalls + 1
  /\ UNCHANGED <<relation_totals_map, shmem_found, hash_nelem, shmem_full, attached,
                 MyDatabaseId, lock, last, denied, schedule, role, hookvars>>

Update_Acquire(p) ==
  /\ pc[p] = "upd_acq"
  /\ LWLockFree(LW_EXCLUSIVE)
  /\ lock' = LWLockAcquire(p, LW_EXCLUSIVE)
  /\ loc' = [loc EXCEPT ![p].before = relation_totals_map]
  /\ pc' = [pc EXCEPT ![p] = "upd_enter"]
  /\ UNCHANGED <<relation_totals_map, shmem_found, hash_nelem, shmem_full, attached,
                 MyDatabaseId, ncalls, last, denied, schedule, role, hookvars>>

HashHasRoomMutOneShort(nentries, nelem) == nentries + 1 < nelem

\* hash_search(HASH_ENTER) takes a free element when the table has one; the
\* table starts with the MAX_DB_ROLE_ENTRIES elements ShmemInitHash allocated
HashHasRoom(nentries, nelem) == nentries < nelem

\* a new element's payload is whatever the memory held; src records which
\* Update call wrote each field (<<>>: none has)
FreshEntries ==
  [quota : Quotas, totalsize : Sizes, qsrc : {<<>>}, tsrc : {<<>>}]

HashEnterMutEvicts(map, key, e) ==
  IF Cardinality(DOMAIN map) >= MAX_DB_ROLE_ENTRIES
  THEN Without(map, CHOOSE k \in DOMAIN map : TRUE) @@ (key :> e)
  ELSE map @@ (key :> e)

\* HASH_ENTER of a key the table does not hold: one more element, linked in
\* next to the others
HashEnter(map, key, e) == map @@ (key :> e)

\* hash_search(relation_totals_map, &key, HASH_ENTER, &found).  With no free
\* element left, dynahash asks the shared segment for more: that succeeds
\* while the segment has room (at most MaxSpare elements here) and fails for
\* good once it has none.
Update_HashEnter(p) ==
  /\ pc[p] = "upd_enter"
  /\ LET key == UpdateKey(p)
         nentries == Cardinality(DOMAIN relation_totals_map)
         Insert == /\ \E e \in FreshEntries :
                        relation_totals_map' =
                          HashEnter(relation_totals_map, key, e)
                   /\ pc' = [pc EXCEPT ![p] = "upd_quota"]
                   /\ UNCHANGED loc
         \* ereport(ERROR, "out of shared memory"): the function is left by
         \* a non-local exit, the lock still held
         Fail == /\ pc' = [pc EXCEPT ![p] = "upd_err"]
                 /\ shmem_full' = TRUE
                 /\ UNCHANGED <<relation_totals_map, loc, hash_nelem>>
     IN IF key \in DOMAIN relation_totals_map
        THEN /\ loc' = [loc EXCEPT ![p].found = TRUE]
             /\ pc' = [pc EXCEPT ![p] = "upd_quota"]
             /\ UNCHANGED <<relation_totals_map, hash_nelem, shmem_full>>
        ELSE IF HashHasRoom(nentries, hash_nelem)
        THEN Insert /\ UNCHANGED <<hash_nelem, shmem_full>>
        ELSE IF shmem_full \/ hash_nelem >= MAX_DB_ROLE_ENTRIES + MaxSpare
        THEN Fail
        ELSE \/ Insert /\ hash_nelem' = hash_nelem + 1 /\ UNCHANGED shmem_full
             \/ Fail
  /\ UNCHANGED <<shmem_found, attached, MyDatabaseId, lock,
                 ncalls, last, denied, schedule, role, hookvars>>

StoreQuotaMutSwapped(e, newquota, newtotalsize) ==
  [e EXCEPT !.quota = newtotalsize, !.qsrc = <<newquota, newtotalsize>>]

\* relentry->quota = newquota
StoreQuota(e, newquota, newtotalsize) ==
  [e EXCEPT !.quota = newquota, !.qsrc = <<newquota, newtotalsize>>]

StoreTotalsizeMutOnlyGrows(e, newquota, newtotalsize) ==
  [e EXCEPT !.totalsize = IF e.tsrc # <<>> /\ @ > newtotalsize
                          THEN @ ELSE newtotalsize,
            !.tsrc = <<newquota, newtotalsize>>]

\* relentry->totalsize = newtotalsize
StoreTotalsize(e, newquota, newtotalsize) ==
  [e EXCEPT !.totalsize = newtotalsize, !.tsrc = <<newquota, newtotalsize>>]

Update_WriteQuota(p) ==
  /\ pc[p] = "upd_quota"
  /\ LET key == UpdateKey(p) IN
       relation_totals_map' =
         IF key \in DOMAIN relation_totals_map
         THEN [relation_totals_map EXCEPT ![key] =
                 StoreQuota(@, loc[p].newquota, loc[p].newtotalsize)]
         ELSE relation_totals_map
  /\ pc' = [pc EXCEPT ![p] = "upd_size"]
  /\ UNCHANGED <<shmem_found, hash_nelem, shmem_full, attached, MyDatabaseId, lock,
                 loc, ncalls, last, denied, schedule, role, hookvars>>

Update_WriteTotalsize(p) ==
  /\ pc[p] = "upd_size"
  /\ LET key == UpdateKey(p) IN
       relation_totals_map' =
         IF key \in DOMAIN relation_totals_map
         THEN [relation_totals_map EXCEPT ![key] =
                 StoreTotalsize(@, loc[p].newquota, loc[p].newtotalsize)]
         ELSE relation_totals_map
  /\ pc' = [pc EXCEPT ![p] = "upd_rel"]
  /\ UNCHANGED <<shmem_found, hash_nelem, shmem_full, attached, MyDatabaseId, lock,
                 loc, ncalls, last, denied, schedule, role, hookvars>>

Update_Release(p) ==
  /\ pc[p] = "upd_rel"
  /\ lock' = LWLockRelease(p)
  /\ last' = [k \in DOMAIN last \cup {UpdateKey(p)} |->
                IF k = UpdateKey(p)
                THEN [quota |-> loc[p].newquota,
                      totalsize |-> loc[p].newtotalsize]
                ELSE last[k]]
  /\ loc' = [loc EXCEPT ![p].outcome = "ok", ![p].before = <<>>]
  /\ pc' = [pc EXCEPT ![p] = "done"]
  /\ UNCHANGED <<relation_totals_map, shmem_found, hash_nelem, shmem_full, attached,
                 MyDatabaseId, ncalls, denied, schedule, role, hookvars>>

\* the host's error recovery (LWLockReleaseAll) after the ERROR raised by
\* hash_search
Update_ErrorCleanup(p) ==
  /\ pc[p] = "upd_err"
  /\ lock' = LWLockReleaseAll(p)
  /\ loc' = [loc EXCEPT ![p].outcome = "error_out_of_shared_memory",
                         ![p].before = <<>>]
  /\ pc' = [pc EXCEPT ![p] = "done"]
  /\ UNCHANGED <<relation_totals_map, shmem_found, hash_nelem, shmem_full, attached,
                 MyDatabaseId, ncalls, last, denied, schedule, role, hookvars>>

(* --------------------------- init_fs_model ----------------------------- *)
Reset_Call(p) ==
  /\ CanStart(p)
  /\ IsWorker(p)
  /\ attached[p]
  /\ loc' = [loc EXCEPT ![p] = [NoLocals EXCEPT !.op = "reset"]]
  /\ pc' = [pc EXCEPT ![p] = "rst_acq"]
  /\ ncalls' = ncalls + 1
  /\ UNCHANGED <<relation_totals_map, shmem_found, hash_nelem, shmem_full, attached,
                 MyDatabaseId, lock, last, denied, schedule, role, hookvars>>

\* LWLockAcquire(shared->lock, LW_EXCLUSIVE); hash_seq_init(&iter, map)
Reset_Acquire(p) ==
  /\ pc[p] = "rst_acq"
  /\ LWLockFree(LW_EXCLUSIVE)
  /\ lock' = LWLockAcquire(p, LW_EXCLUSIVE)
  /\ loc' = [loc EXCEPT ![p].iter = DOMAIN relation_totals_map,
                         ![p].before = relation_totals_map]
  /\ pc' = [pc EXCEPT ![p] = "rst_scan"]
  /\ UNCHANGED <<relation_totals_map, shmem_found, hash_nelem, shmem_full, attached,
                 MyDatabaseId, ncalls, last, denied, schedule, role, hookvars>>

ResetMatchesMutEveryScope(key, mydb) == TRUE

\* if (relentry->key.dbid == MyDatabaseId)
ResetMatches(key, mydb) == key.dbid = mydb

\* one round of the hash_seq_search loop: the scan order is the table's
Reset_Scan(p) ==
  /\ pc[p] = "rst_scan"
  /\ LET todo == loc[p].iter \cap DOMAIN relation_totals_map IN
       IF todo = {}
       THEN /\ pc' = [pc EXCEPT ![p] = "rst_rel"]
            /\ loc' = [loc EXCEPT ![p].iter = {}]
            /\ UNCHANGED <<relation_totals_map, last>>
       ELSE \E key \in todo :
            /\ loc' = [loc EXCEPT ![p].iter = todo \ {key}]
            /\ IF ResetMatches(key, MyDatabaseId[p])
               THEN /\ relation_totals_map' = Without(relation_totals_map, key)
                    /\ last' = Without(last, key)
               ELSE UNCHANGED <<relation_totals_map, last>>
            /\ UNCHANGED pc
  /\ UNCHANGED <<shmem_found, hash_nelem, shmem_full, attached, MyDatabaseId, lock,
                 ncalls, denied, schedule, role, hookvars>>

Reset_Release(p) ==
  /\ pc[p] = "rst_rel"
  /\ lock' = LWLockRelease(p)
  /\ loc' = [loc EXCEPT ![p].outcome = "ok", ![p].before = <<>>]
  /\ pc' = [pc EXCEPT ![p] = "done"]
  /\ UNCHANGED <<relation_totals_map, shmem_found, hash_nelem, shmem_full, attached,
                 MyDatabaseId, ncalls, last, denied, schedule, role, hookvars>>

(* ----------------------------- CheckQuota ------------------------------ *)
\* the two stored values of an entry, without the history fields
Pair(e) == [quota |-> e.quota, totalsize |-> e.totalsize]

\* relentry && relentry->quota >= 0 && relentry->totalsize > relentry->quota
\* relentry is <<>> for NULL, <<e>> for a found entry
QuotaExceeded(relentry) ==
  /\ relentry # <<>>
  /\ relentry[1].quota >= 0
  /\ relentry[1].totalsize > relentry[1].quota

CheckKey(p) == MakeKey(loc[p].chkrelid, MyDatabaseId[p])

ResultWhenNoMapMutDeny == FALSE

\* if (!relation_totals_map) return true;
ResultWhenNoMap == TRUE

\* the early return, or LWLockAcquire(shared->lock, LW_SHARED)
Check_Enter(p) ==
  /\ pc[p] = "chk_enter"
  /\ IF ~attached[p]
     THEN /\ loc' = [loc EXCEPT ![p].result = ResultWhenNoMap,
                                ![p].mapnull = TRUE,
                                ![p].seen = <<>>]
          /\ pc' = [pc EXCEPT ![p] = "chk_ret"]
          /\ UNCHANGED lock
     ELSE /\ LWLockFree(LW_SHARED)
          /\ lock' = LWLockAcquire(p, LW_SHARED)
          /\ loc' = [loc EXCEPT ![p].mapnull = FALSE]
          /\ pc' = [pc EXCEPT ![p] = "chk_search"]
  /\ UNCHANGED <<relation_totals_map, shmem_found, hash_nelem, shmem_full, attached,
                 MyDatabaseId, ncalls, last, denied, schedule, role, hookvars>>

\* hash_search(.., HASH_FIND, NULL) and the test of the entry found
Check_Search(p) ==
  /\ pc[p] = "chk_search"
  /\ LET key == CheckKey(p)
         relentry == IF key \in DOMAIN relation_totals_map
                     THEN <<relation_totals_map[key]>> ELSE <<>>
         result == ~QuotaExceeded(relentry)
     IN /\ loc' = [loc EXCEPT ![p].result = result, ![p].seen = relentry]
        /\ denied' = IF result THEN denied ELSE denied \cup {key}
  /\ pc' = [pc EXCEPT ![p] = "chk_rel"]
  /\ UNCHANGED <<relation_totals_map, shmem_found, hash_nelem, shmem_full, attached,
                 MyDatabaseId, lock, ncalls, last, schedule, role, hookvars>>

Check_Release(p) ==
  /\ pc[p] = "chk_rel"
  /\ lock' = LWLockRelease(p)
  /\ pc' = [pc EXCEPT ![p] = "chk_ret"]
  /\ UNCHANGED <<relation_totals_map, shmem_found, hash_nelem, shmem_full, attached,
                 MyDatabaseId, loc, ncalls, last, denied, schedule, role, hookvars>>

\* the caller's record of one CheckQuota call and what it returned
Logged(p) ==
  Append(loc[p].log, [i |-> loc[p].i, relid |-> loc[p].chkrelid,
                      result |-> loc[p].result,
                      missing |-> loc[p].mapnull \/ loc[p].seen = <<>>])

(* --------------------------- get_quota_status -------------------------- *)
Status_Call(p) ==
  /\ CanStart(p)
  /\ IsBackend(p)
  /\ loc' = [loc EXCEPT ![p] = [NoLocals EXCEPT !.op = "status"]]
  /\ pc' = [pc EXCEPT ![p] = "st_enter"]
  /\ ncalls' = ncalls + 1
  /\ UNCHANGED <<relation_totals_map, shmem_found, hash_nelem, shmem_full, attached,
                 MyDatabaseId, lock, last, denied, schedule, role, hookvars>>

\* if (relation_totals_map) { LWLockAcquire(.., LW_SHARED); hash_seq_init }
Status_Enter(p) ==
  /\ pc[p] = "st_enter"
  /\ IF ~attached[p]
     THEN /\ loc' = [loc EXCEPT ![p].mapnull = TRUE, ![p].outcome = "ok"]
          /\ pc' = [pc EXCEPT ![p] = "done"]
          /\ UNCHANGED lock
     ELSE /\ LWLockFree(LW_SHARED)
          /\ lock' = LWLockAcquire(p, LW_SHARED)
          /\ loc' = [loc EXCEPT ![p].iter = DOMAIN relation_totals_map]
          /\ pc' = [pc EXCEPT ![p] = "st_scan"]
  /\ UNCHANGED <<relation_totals_map, shmem_found, hash_nelem, shmem_full, attached,
                 MyDatabaseId, ncalls, last, denied, schedule, role, hookvars>>

StatusSkipsMutNoFilter(key, mydb) == FALSE

\* if (relentry->key.dbid != MyDatabaseId) continue;
StatusSkips(key, mydb) == key.dbid # mydb

\* values[] and nulls[] of one row; key, qsrc and tsrc record where the row's
\* values came from
StatusRow(key, e) ==
  [relid |-> key.relid,
   space_used |-> e.totalsize,
   quota |-> IF e.quota # NoLimit THEN e.quota ELSE 0,
   quota_null |-> ~(e.quota # NoLimit),
   key |-> key, qsrc |-> e.qsrc, tsrc |-> e.tsrc]

\* one round of the hash_seq_search loop, up to the filling of values[] and
\* nulls[] (kept in values, as <<>> or <<row>>)
Status_Scan(p) ==
  /\ pc[p] = "st_scan"
  /\ LET todo == loc[p].iter \cap DOMAIN relation_totals_map IN
       IF todo = {}
       THEN /\ pc' = [pc EXCEPT ![p] = "st_rel"]
            /\ loc' = [loc EXCEPT ![p].iter = {}]
       ELSE \E key \in todo :
            IF StatusSkips(key, MyDatabaseId[p])
            THEN /\ loc' = [loc EXCEPT ![p].iter = todo \ {key}]
                 /\ UNCHANGED pc
            ELSE /\ loc' = [loc EXCEPT
                      ![p].iter = todo \ {key},
                      ![p].values =
                         <<StatusRow(key, relation_totals_map[key])>>]
                 /\ pc' = [pc EXCEPT ![p] = "st_put"]
  /\ UNCHANGED <<relation_totals_map, shmem_found, hash_nelem, shmem_full, attached,
                 MyDatabaseId, lock, ncalls, last, denied, schedule, role, hookvars>>

\* tuplestore_putvalues(tupstore, tupdesc, values, nulls): the row goes to
\* the caller's tuple store, in memory or in its temporary file; when the
\* memory or the file cannot be had it raises an ERROR, the lock still held
Status_PutValues(p) ==
  /\ pc[p] = "st_put"
  /\ \/ /\ loc' = [loc EXCEPT ![p].rows = Append(@, loc[p].values[1]),
                               ![p].values = <<>>]
        /\ pc' = [pc EXCEPT ![p] = "st_scan"]
     \/ /\ pc' = [pc EXCEPT ![p] = "st_err"]
        /\ UNCHANGED loc
  /\ UNCHANGED <<relation_totals_map, shmem_found, hash_nelem, shmem_full, attached,
                 MyDatabaseId, lock, ncalls, last, denied, schedule, role, hookvars>>

Status_Release(p) ==
  /\ pc[p] = "st_rel"
  /\ lock' = LWLockRelease(p)
  /\ loc' = [loc EXCEPT ![p].outcome = "ok"]
  /\ pc' = [pc EXCEPT ![p] = "done"]
  /\ UNCHANGED <<relation_totals_map, shmem_found, hash_nelem, shmem_full, attached,
                 MyDatabaseId, ncalls, last, denied, schedule, role, hookvars>>

\* the host's error recovery after the ERROR raised by tuplestore_putvalues:
\* the lock is released and the statement has no result
Status_ErrorCleanup(p) ==
  /\ pc[p] = "st_err"
  /\ lock' = LWLockReleaseAll(p)
  /\ loc' = [loc EXCEPT ![p].outcome = "error_tuplestore", ![p].rows = <<>>,
                         ![p].values = <<>>, ![p].iter = {}]
  /\ pc' = [pc EXCEPT ![p] = "done"]
  /\ UNCHANGED <<relation_totals_map, shmem_found, hash_nelem, shmem_full, attached,
                 MyDatabaseId, ncalls, last, denied, schedule, role, hookvars>>

(* -------------------- quota_check_ExecCheckRTPerms --------------------- *)
RTE_RELATION == "RTE_RELATION"
RTE_SUBQUERY == "RTE_SUBQUERY"

\* range table entries: only relations carry a relid and required permissions
RangeTblEntry ==
  [rtekind : {RTE_RELATION}, acl_insert : BOOLEAN, relid : Entities]
    \cup [rtekind : {RTE_SUBQUERY}, acl_insert : {FALSE}, relid : {InvalidOid}]

RangeTables ==
  UNION {[1..n -> RangeTblEntry] :
           n \in 1..(IF schedule = "statement" THEN MaxRT ELSE 1)}

Perm_Call(p) ==
  /\ CanStart(p)
  /\ IsBackend(p)
  /\ \E rt \in RangeTables :
       loc' = [loc EXCEPT ![p] = [NoLocals EXCEPT !.op = "perm",
                 !.rangeTable = rt, !.i = 1]]
  /\ pc' = [pc EXCEPT ![p] = "perm_loop"]
  /\ ncalls' = ncalls + 1
  /\ UNCHANGED <<relation_totals_map, shmem_found, hash_nelem, shmem_full, attached,
                 MyDatabaseId, lock, last, denied, schedule, role, hookvars>>

NeedsCheckMutNoInsertTest(rte) == rte.rtekind = RTE_RELATION

\* the two "continue" tests of the loop body
NeedsCheck(rte) == rte.rtekind = RTE_RELATION /\ rte.acl_insert

\* neither hook function has a call of prev_ExecutorCheckPerms_hook or
\* prev_SmgrExtend_hook on any path
CallsPrevHook == FALSE

\* the answers the earlier module's hook function can have for a call, were
\* it asked: anything when there is such a hook, else nothing to disallow
EarlierVerdicts(p) ==
  IF prev_hook[p] = earlier_hook THEN BOOLEAN ELSE {TRUE}

\* foreach(l, rangeTable): skip the entry, or call CheckQuota(rte->relid);
\* return true after the last entry
Perm_Loop(p) ==
  /\ pc[p] = "perm_loop"
  /\ IF loc[p].i > Len(loc[p].rangeTable)
     THEN /\ \E verdict \in EarlierVerdicts(p) :
               loc' = [loc EXCEPT ![p].outcome = "allow",
                                  ![p].earlier_allows = verdict,
                                  ![p].prev_called = CallsPrevHook]
          /\ pc' = [pc EXCEPT ![p] = "done"]
     ELSE LET rte == loc[p].rangeTable[loc[p].i] IN
          IF NeedsCheck(rte)
          THEN /\ loc' = [loc EXCEPT ![p].chkrelid = rte.relid]
               /\ pc' = [pc EXCEPT ![p] = "chk_enter"]
          ELSE /\ loc' = [loc EXCEPT ![p].i = @ + 1]
               /\ UNCHANGED pc
  /\ UNCHANGED <<relation_totals_map, shmem_found, hash_nelem, shmem_full, attached,
                 MyDatabaseId, lock, ncalls, last, denied, schedule, role, hookvars>>

\* if (!CheckQuota(..)) { if (ereport_on_violation) ereport(ERROR ..);
\*                        return false; }
\* The caller's ereport_on_violation is read here and nowhere else, so its
\* value is drawn here.
Perm_AfterCheck(p) ==
  /\ pc[p] = "chk_ret"
  /\ loc[p].op = "perm"
  /\ IF ~loc[p].result
     THEN /\ \E ereport_on_violation \in BOOLEAN :
               loc' = [loc EXCEPT ![p].log = Logged(p),
                 ![p].ereport_on_violation = ereport_on_violation,
                 ![p].outcome = IF ereport_on_violation
                                THEN "error_disk_full" ELSE "deny"]
          /\ pc' = [pc EXCEPT ![p] = "done"]
     ELSE /\ loc' = [loc EXCEPT ![p].log = Logged(p), ![p].i = @ + 1]
          /\ pc' = [pc EXCEPT ![p] = "perm_loop"]
  /\ UNCHANGED <<relation_totals_map, shmem_found, hash_nelem, shmem_full, attached,
                 MyDatabaseId, lock, ncalls, last, denied, schedule, role, hookvars>>

(* ----------------------- quota_check_SmgrExtend ------------------------ *)
Extend_Call(p) ==
  /\ CanStart(p)
  /\ IsBackend(p)
  /\ loc' = [loc EXCEPT ![p] = [NoLocals EXCEPT !.op = "extend"]]
  /\ pc' = [pc EXCEPT ![p] = "ext_owner"]
  /\ ncalls' = ncalls + 1
  /\ UNCHANGED <<relation_totals_map, shmem_found, hash_nelem, shmem_full, attached,
                 MyDatabaseId, lock, last, denied, schedule, role, hookvars>>

\* get_rel_owner: the catalog's answer for the relation being extended,
\* InvalidOid when it has no pg_class row
RelOwners == Entities \cup {InvalidOid}

OwnerUnresolvedMutNoTest(owner) == FALSE

\* if (owner == InvalidOid)
OwnerUnresolved(owner) == owner = InvalidOid

\* owner = get_rel_owner(..); if (owner == InvalidOid) return;
Extend_Owner(p) ==
  /\ pc[p] = "ext_owner"
  /\ \E owner \in RelOwners :
       IF OwnerUnresolved(owner)
       THEN /\ loc' = [loc EXCEPT ![p].owner = owner, ![p].outcome = "allow",
                                    ![p].prev_called = CallsPrevHook]
            /\ pc' = [pc EXCEPT ![p] = "done"]
       ELSE /\ loc' = [loc EXCEPT ![p].owner = owner, ![p].chkrelid = owner]
            /\ pc' = [pc EXCEPT ![p] = "chk_enter"]
  /\ UNCHANGED <<relation_totals_map, shmem_found, hash_nelem, shmem_full, attached,
                 MyDatabaseId, lock, ncalls, last, denied, schedule, role, hookvars>>

\* if (!CheckQuota(owner)) ereport(ERROR ..); return;
Extend_AfterCheck(p) ==
  /\ pc[p] = "chk_ret"
  /\ loc[p].op = "extend"
  /\ loc' = [loc EXCEPT ![p].log = Logged(p),
               ![p].outcome = IF ~loc[p].result
                              THEN "error_disk_full" ELSE "allow",
               ![p].prev_called = loc[p].result /\ CallsPrevHook]
  /\ pc' = [pc EXCEPT ![p] = "done"]
  /\ UNCHANGED <<relation_totals_map, shmem_found, hash_nelem, shmem_full, attached,
                 MyDatabaseId, lock, ncalls, last, denied, schedule, role, hookvars>>

\* the caller moves on; the finished call's locals are gone
Return(p) ==
  /\ pc[p] = "done"
  /\ pc' = [pc EXCEPT ![p] = "idle"]
  /\ loc' = [loc EXCEPT ![p] = NoLocals]
  /\ UNCHANGED <<relation_totals_map, shmem_found, hash_nelem, shmem_full, attached,
                 MyDatabaseId, lock, ncalls, last, denied, schedule, role, hookvars>>

(* ========================= properties of the store ====================== *)
TypeOK ==
  /\ DOMAIN relation_totals_map \subseteq RelationSizeEntryKey
  /\ \A p \in Procs : loc[p].op \in
       {"none", "startup", "update", "reset", "status", "perm", "extend"}
  /\ \A p \in Procs : pc[p] \in
       {"idle", "done", "upd_acq", "upd_enter", "upd_quota", "upd_size",
        "upd_rel", "upd_err", "rst_acq", "rst_scan", "rst_rel",
        "chk_enter", "chk_search", "chk_rel", "chk_ret",
        "st_enter", "st_scan", "st_put", "st_rel", "st_err",
        "perm_loop", "ext_owner"}
  /\ ncalls \in 0..CallLimit
  /\ schedule \in {"concurrent", "fair", "serial", "statement", "hooks"}
  /\ \A p \in Procs :
       /\ hook[p] \in {NoHook, earlier_hook, quota_check}
       /\ prev_hook[p] \in {NoHook, earlier_hook, quota_check}
       /\ hook_installed[p] \in BOOLEAN

\* the entry the store holds for the key of p's CheckQuota call, as <<>> or <<e>>
Stored(key) ==
  IF key \in DOMAIN relation_totals_map
  THEN <<relation_totals_map[key]>> ELSE <<>>

\* the pairs the store holds, without the history fields
StoreView == [k \in DOMAIN relation_totals_map |-> Pair(relation_totals_map[k])]

\* p has the answer of a CheckQuota call in hand
Checked(p) == pc[p] = "chk_ret"

\* C1 (as claimed): a finished CheckQuota has denied if and only if it found
\* an entry whose limit is not the "no limit" value -1 and whose usedBytes is
\* greater than its limitBytes.
C1_DeniesIffOverNonSentinelLimit ==
  \A p \in Procs :
    Checked(p) =>
      (loc[p].result = FALSE
         <=> /\ loc[p].seen # <<>>
             /\ loc[p].seen[1].quota # NoLimit
             /\ loc[p].seen[1].totalsize > loc[p].seen[1].quota)

\* C2: a CheckQuota that follows a completed Update of its key decides from
\* that Update's two values alone, whatever was decided before: no limit
\* allows, usedBytes above a limit >= 0 denies, usedBytes at or below it allows.
C2_DenialNotSticky ==
  \A p \in Procs :
    (Checked(p) /\ ~loc[p].mapnull /\ CheckKey(p) \in DOMAIN last) =>
      LET u == last[CheckKey(p)] IN
        /\ u.quota = NoLimit => loc[p].result = TRUE
        /\ (u.quota >= 0 /\ u.totalsize > u.quota) => loc[p].result = FALSE
        /\ (u.quota >= 0 /\ u.totalsize <= u.quota) => loc[p].result = TRUE

\* C2 witness: a check allows on a key with a limit >= 0 after an earlier check
\* of the same key was denied.
C2_Witness_AllowedAfterDenial ==
  \E p \in Procs :
    /\ Checked(p)
    /\ loc[p].result = TRUE
    /\ loc[p].seen # <<>>
    /\ loc[p].seen[1].quota >= 0
    /\ CheckKey(p) \in denied

\* C3: CheckQuota allows whenever the process has no store attached or the
\* key has no entry, and the status function of a process with no store
\* attached finishes normally with no rows.
C3_FailOpenOnMissingInformation ==
  \A p \in Procs :
    /\ (Checked(p) /\ (loc[p].mapnull \/ loc[p].seen = <<>>)) =>
         loc[p].result = TRUE
    /\ (pc[p] = "done" /\ loc[p].op \in {"perm", "extend"}
          /\ \A j \in 1..Len(loc[p].log) : loc[p].log[j].missing) =>
         loc[p].outcome = "allow"
    /\ (pc[p] = "done" /\ loc[p].op = "status" /\ loc[p].mapnull) =>
         (loc[p].rows = <<>> /\ loc[p].outcome = "ok")

\* C3 witness: a process with no store attached has been allowed although the
\* store holds an over-quota entry for the very key it asked about.
C3_Witness_UnattachedAllowed ==
  \E p \in Procs :
    /\ Checked(p)
    /\ loc[p].mapnull
    /\ QuotaExceeded(Stored(CheckKey(p)))

\* C4: whenever no writer is inside its critical section the store holds, for
\* every key, exactly the two arguments of the last completed Update of that
\* key since the last Reset of its scope (and no entry for any other key); a
\* reader still holding the lock has observed exactly those values.
C4_StoreHoldsLastUpdate ==
  /\ Holders(LW_EXCLUSIVE) = {} => StoreView = last
  /\ \A p \in Procs :
       /\ pc[p] = "chk_rel" =>
            IF CheckKey(p) \in DOMAIN last
            THEN /\ loc[p].seen # <<>>
                 /\ Pair(loc[p].seen[1]) = last[CheckKey(p)]
            ELSE loc[p].seen = <<>>
       /\ pc[p] \in {"st_scan", "st_put", "st_rel"} =>
            \A j \in 1..Len(loc[p].rows) :
              LET r == loc[p].rows[j] IN
                /\ r.key \in DOMAIN last
                /\ r.space_used = last[r.key].totalsize
                /\ IF last[r.key].quota = NoLimit THEN r.quota_null
                   ELSE ~r.quota_null /\ r.quota = last[r.key].quota

\* C4 witness: an Update has replaced an existing entry and the store holds
\* its arguments.
C4_Witness_Replaced ==
  \E p \in Procs :
    /\ pc[p] = "upd_rel" /\ loc[p].found
    /\ UpdateKey(p) \in DOMAIN loc[p].before
    /\ Pair(loc[p].before[UpdateKey(p)]) #
         [quota |-> loc[p].newquota, totalsize |-> loc[p].newtotalsize]
    /\ StoreView[UpdateKey(p)] =
         [quota |-> loc[p].newquota, totalsize |-> loc[p].newtotalsize]

\* both fields of e were written by one and the same Update call
WholeEntry(e) ==
  /\ e.qsrc # <<>>
  /\ e.qsrc = e.tsrc
  /\ e.qsrc = <<e.quota, e.totalsize>>

\* C5: an entry read by CheckQuota or reported by get_quota_status has both
\* fields written by the same Update call: never one call's quota with another
\* call's totalsize, never a field of a new entry that is not written yet.
C5_ReadersSeeWholeEntries ==
  \A p \in Procs :
    /\ (pc[p] \in {"chk_rel", "chk_ret"} /\ loc[p].seen # <<>>) =>
         WholeEntry(loc[p].seen[1])
    /\ \A j \in 1..Len(loc[p].rows) :
         LET r == loc[p].rows[j] IN
           /\ r.qsrc # <<>>
           /\ r.qsrc = r.tsrc
           /\ r.tsrc[2] = r.space_used
           /\ r.qsrc[1] = (IF r.quota_null THEN NoLimit ELSE r.quota)

\* C5 witness: a reader has read an entry under the lock while another process
\* waits to overwrite the same entry with different values.
C5_Witness_ReadWhileUpdaterWaits ==
  \E p, q \in Procs :
    /\ pc[p] \in {"chk_rel", "st_rel"}
    /\ pc[q] = "upd_acq"
    /\ UpdateKey(q) \in DOMAIN relation_totals_map
    /\ UpdateKey(q).dbid = MyDatabaseId[p]
    /\ (pc[p] = "chk_rel" =>
          (loc[p].seen # <<>> /\ CheckKey(p) = UpdateKey(q)))
    /\ (pc[p] = "st_rel" =>
          \E j \in 1..Len(loc[p].rows) : loc[p].rows[j].key = UpdateKey(q))
    /\ relation_totals_map[UpdateKey(q)].quota # loc[q].newquota
    /\ relation_totals_map[UpdateKey(q)].totalsize # loc[q].newtotalsize

\* the entries of table f outside scope db
OtherScopes(f, db) == [k \in {x \in DOMAIN f : x.dbid # db} |-> f[k]]

\* the keys of table f inside scope db
ScopeKeys(f, db) == {x \in DOMAIN f : x.dbid = db}

\* C6: when init_fs_model has finished its scan, the store holds no entry of
\* the caller's database and holds every entry of every other database as it
\* was when the scan began (so nothing changes when there was none to remove);
\* a status call that runs on a store without entries of its database returns
\* no rows.
C6_ResetClearsOnlyOwnScope ==
  \A p \in Procs :
    /\ pc[p] = "rst_rel" =>
         /\ ScopeKeys(relation_totals_map, MyDatabaseId[p]) = {}
         /\ relation_totals_map = OtherScopes(loc[p].before, MyDatabaseId[p])
    /\ (loc[p].op = "status" /\ pc[p] = "done"
          /\ ScopeKeys(relation_totals_map, MyDatabaseId[p]) = {}) =>
         loc[p].rows = <<>>

\* C6 witness: a Reset has removed entries of its own database from a store
\* that also held entries of another database.
C6_Witness_ResetAmongScopes ==
  \E p \in Procs :
    /\ pc[p] = "rst_rel"
    /\ ScopeKeys(loc[p].before, MyDatabaseId[p]) # {}
    /\ DOMAIN relation_totals_map # {}

\* p's Update has got past hash_search and is writing or has written the
\* entry, the lock still held
UpdateEntered(p) == pc[p] \in {"upd_quota", "upd_size", "upd_rel"}

\* hash_search has raised its error in p's Update
UpdateFailed(p) == pc[p] = "upd_err"

CheckQuotaNow(p, relid) ==
  IF ~attached[p] THEN ResultWhenNoMap
  ELSE ~QuotaExceeded(Stored(MakeKey(relid, MyDatabaseId[p])))

\* the operation's targets that are relations and require insert permission
WriteTargets(rt) ==
  {i \in 1..Len(rt) : rt[i].rtekind = RTE_RELATION /\ rt[i].acl_insert}

\* C8: the permission hook ends in a denial (return false, or the error when
\* ereport_on_violation is set) if and only if CheckQuota fails for at least
\* one target that is a relation and requires insert permission; it calls
\* CheckQuota for such targets only, and returns true otherwise.
C8_PermHookAllOrNothing ==
  \A p \in Procs :
    (pc[p] = "done" /\ loc[p].op = "perm") =>
      LET rt == loc[p].rangeTable
          log == loc[p].log
          refused == loc[p].outcome \in {"deny", "error_disk_full"}
      IN /\ loc[p].outcome \in {"allow", "deny", "error_disk_full"}
         /\ refused <=> \E i \in WriteTargets(rt) :
                          ~CheckQuotaNow(p, rt[i].relid)
         /\ refused <=> \E j \in 1..Len(log) : ~log[j].result
         /\ \A j \in 1..Len(log) :
              log[j].i \in WriteTargets(rt) /\ log[j].relid = rt[log[j].i].relid
         /\ refused => (loc[p].outcome = "error_disk_full"
                          <=> loc[p].ereport_on_violation)

\* C8 witness: a two-target operation is denied on its second target, after a
\* first target that is over quota but needs no insert permission was passed
\* over.
C8_Witness_DeniedOnSecondTarget ==
  \E p \in Procs :
    /\ pc[p] = "done" /\ loc[p].op = "perm" /\ loc[p].outcome = "deny"
    /\ Len(loc[p].rangeTable) = 2
    /\ 1 \notin WriteTargets(loc[p].rangeTable)
    /\ loc[p].rangeTable[1].rtekind = RTE_RELATION
    /\ ~CheckQuotaNow(p, loc[p].rangeTable[1].relid)
    /\ loc[p].rangeTable[2].relid # loc[p].rangeTable[1].relid
    /\ Len(loc[p].log) = 1 /\ loc[p].log[1].i = 2

\* C9: the extend hook allows without calling CheckQuota when the owner is
\* InvalidOid, whatever the store holds; with an owner it calls
\* CheckQuota(owner) once and raises the disk-full error if and only if that
\* call returned false.
C9_ExtendHookFailOpen ==
  \A p \in Procs :
    /\ (loc[p].op = "extend" /\ pc[p] \in {"chk_enter", "chk_search",
                                           "chk_rel", "chk_ret"}) =>
         (loc[p].owner # InvalidOid /\ loc[p].chkrelid = loc[p].owner)
    /\ (loc[p].op = "extend" /\ pc[p] = "done") =>
         IF loc[p].owner = InvalidOid
         THEN loc[p].outcome = "allow" /\ loc[p].log = <<>>
         ELSE /\ Len(loc[p].log) = 1
              /\ loc[p].log[1].relid = loc[p].owner
              /\ loc[p].outcome \in {"allow", "error_disk_full"}
              /\ loc[p].outcome = "error_disk_full" <=> ~loc[p].log[1].result

\* C9 witness: an extension with an unresolved owner went through in an
\* attached process whose database has an over-quota entry.
C9_Witness_UnresolvedOwnerAllowed ==
  \E p \in Procs :
    /\ loc[p].op = "extend" /\ pc[p] = "done"
    /\ loc[p].owner = InvalidOid
    /\ attached[p]
    /\ \E k \in ScopeKeys(relation_totals_map, MyDatabaseId[p]) :
         QuotaExceeded(Stored(k))

\* C10: every row get_quota_status has produced comes from an entry of the
\* calling process's database.
C10_StatusRowsOfOwnScope ==
  \A p \in Procs :
    \A j \in 1..Len(loc[p].rows) :
      loc[p].rows[j].key.dbid = MyDatabaseId[p]

\* C10 witness: a status scan has gone over a table that holds entries of
\* another database, while a worker of that database is in an Update.
C10_Witness_ForeignEntriesScanned ==
  \E p, q \in Procs :
    /\ loc[p].op = "status" /\ pc[p] = "st_rel"
    /\ \E k \in DOMAIN relation_totals_map : k.dbid # MyDatabaseId[p]
    /\ MyDatabaseId[q] # MyDatabaseId[p]
    /\ loc[q].op = "update" /\ pc[q] = "upd_acq"

\* the entry table f holds for key k, as <<>> or <<e>>
StoredIn(f, k) == IF k \in DOMAIN f THEN <<f[k]>> ELSE <<>>

\* the keys that carry p's relid in a database other than p's
SameRelidElsewhere(p) ==
  {k \in RelationSizeEntryKey :
     k.relid = loc[p].relid /\ k.dbid # MyDatabaseId[p]}

\* C11: while an Update of relid e in database s1 is writing, and when it has
\* written, the entry of the same relid e in every other database s2 is there
\* or not as it was when the Update took the lock, with the same two values,
\* so CheckQuota(e) in s2 answers as before and no entry of s2 is added,
\* changed or removed.
C11_KeysDoNotCollideAcrossScopes ==
  \A p \in Procs :
    UpdateEntered(p) =>
      /\ \A k \in SameRelidElsewhere(p) :
           /\ Stored(k) = StoredIn(loc[p].before, k)
           /\ QuotaExceeded(Stored(k)) =
                QuotaExceeded(StoredIn(loc[p].before, k))
      /\ OtherScopes(relation_totals_map, MyDatabaseId[p]) =
           OtherScopes(loc[p].before, MyDatabaseId[p])
      /\ MakeKey(loc[p].relid, MyDatabaseId[p]) \in DOMAIN relation_totals_map

\* C11 witness: an Update has written a new entry for a relid while another
\* database holds an entry of the same relid with other values.
C11_Witness_SameRelidTwoScopes ==
  \E p \in Procs :
    /\ pc[p] = "upd_rel" /\ ~loc[p].found
    /\ \E k \in SameRelidElsewhere(p) :
         /\ k \in DOMAIN relation_totals_map
         /\ relation_totals_map[k].quota # loc[p].newquota
         /\ relation_totals_map[k].totalsize # loc[p].newtotalsize
    /\ StoreView[MakeKey(loc[p].relid, MyDatabaseId[p])] =
         [quota |-> loc[p].newquota, totalsize |-> loc[p].newtotalsize]

\* every attached reader reads the one table, which holds what the completed
\* Updates of all processes wrote
OneSharedStore ==
  /\ \A p \in Procs :
       /\ pc[p] = "chk_rel" => loc[p].seen = Stored(CheckKey(p))
       /\ (pc[p] = "done" /\ loc[p].op = "startup") =>
            (attached[p] /\ shmem_found
               /\ (~loc[p].found => loc[p].nentries = 0))
  /\ Holders(LW_EXCLUSIVE) = {} => DOMAIN last = DOMAIN relation_totals_map

\* C12: a startup that finds the shared struct leaves every entry and the
\* lock's holders as they are, and the first startup makes an empty table; a
\* reader of any process then reads, for its key, the entry the one shared
\* table holds, and every key some process's completed Update wrote is in it
\* when no writer is at work.
C12_StartupReusesStore ==
  [][/\ OneSharedStore /\ OneSharedStore'
     /\ \A p \in Procs :
          (~attached[p] /\ attached'[p]) =>
            /\ shmem_found' /\ loc'[p].found = shmem_found
            /\ shmem_found =>
                 /\ relation_totals_map' = relation_totals_map
                 /\ lock' = lock
            /\ ~shmem_found => relation_totals_map' = <<>>]_vars

\* C12 witness: a process has attached to a table that held entries while
\* another process was inside its critical section, and the entries are there.
C12_Witness_AttachedToLiveStore ==
  \E p, q \in Procs :
    /\ pc[p] = "done" /\ loc[p].op = "startup"
    /\ loc[p].found /\ loc[p].nentries > 0
    /\ Cardinality(DOMAIN relation_totals_map) >= loc[p].nentries
    /\ q # p /\ HoldsLock(q)

\* p is between LWLockAcquire(.., LW_EXCLUSIVE) and LWLockRelease in
\* UpdateQuotaRefreshRelationSize or init_fs_model
InWriterSection(p) ==
  pc[p] \in {"upd_enter", "upd_quota", "upd_size", "upd_rel",
             "rst_scan", "rst_rel"}

\* p is between LWLockAcquire(.., LW_SHARED) and LWLockRelease in CheckQuota
\* or get_quota_status
InReaderSection(p) ==
  pc[p] \in {"chk_search", "chk_rel", "st_scan", "st_put", "st_rel"}

\* who is inside which critical section agrees with who holds the lock how
SectionsUnderLock ==
  /\ \A p \in Procs :
       /\ InWriterSection(p) =>
            /\ <<p, LW_EXCLUSIVE>> \in lock
            /\ \A q \in Procs \ {p} :
                 ~InWriterSection(q) /\ ~InReaderSection(q)
       /\ InReaderSection(p) => <<p, LW_SHARED>> \in lock
  /\ Holders(LW_EXCLUSIVE) # {} => Cardinality(lock) = 1

\* C13: a process inside a writer's critical section holds the lock
\* exclusively and no other process is inside any critical section; a process
\* inside a reader's critical section holds the lock shared; the lock is never
\* held exclusively together with any other hold; and the table changes only
\* in a step of a process that is inside a writer's critical section.
C13_LockDiscipline ==
  [][/\ SectionsUnderLock /\ SectionsUnderLock'
     /\ relation_totals_map' # relation_totals_map =>
          \E p \in Procs :
            /\ InWriterSection(p) /\ <<p, LW_EXCLUSIVE>> \in lock
            /\ pc'[p] # pc[p] \/ loc'[p] # loc[p]
            /\ \A q \in Procs \ {p} : pc'[q] = pc[q] /\ loc'[q] = loc[q]]_vars

\* C13 witness: two readers are inside their critical sections at once, on a
\* table that holds an entry, each having read from it.
C13_Witness_TwoReadersInside ==
  \E p, q \in Procs :
    /\ p # q
    /\ pc[p] = "chk_rel" /\ loc[p].seen # <<>>
    /\ pc[q] = "st_rel" /\ loc[q].rows # <<>>
    /\ Holders(LW_SHARED) = {<<p, LW_SHARED>>, <<q, LW_SHARED>>}

\* the rows a scan of table f in database db yields, as a set
SnapshotRows(f, db) == {StatusRow(k, f[k]) : k \in ScopeKeys(f, db)}

\* C14: when get_quota_status has finished its scan, still holding the lock,
\* its rows are exactly the entries of its database that the store holds at
\* that moment: one row for each, with the entry's values, no row twice and
\* none for anything else; during the scan every row gathered so far is of an
\* entry the store holds, with its values.
C14_StatusIsSnapshot ==
  \A p \in Procs :
    LET rows == loc[p].rows
        now == SnapshotRows(relation_totals_map, MyDatabaseId[p])
    IN /\ pc[p] = "st_rel" =>
            /\ {rows[j] : j \in 1..Len(rows)} = now
            /\ Len(rows) = Cardinality(now)
       /\ pc[p] \in {"st_scan", "st_put"} =>
            /\ {rows[j] : j \in 1..Len(rows)} \subseteq now
            /\ \A i, j \in 1..Len(rows) : rows[i].key = rows[j].key => i = j

\* C14 witness: a scan has yielded its rows while a Reset of the same database
\* waits for the lock.
C14_Witness_ScanWhileResetWaits ==
  \E p, q \in Procs :
    /\ pc[p] = "st_rel" /\ loc[p].rows # <<>>
    /\ pc[q] = "rst_acq" /\ MyDatabaseId[q] = MyDatabaseId[p]

\* p holds no lock where the code holds none: between calls, at and after a
\* return, before an acquisition, and in the hooks outside CheckQuota
OutsideSections(p) ==
  pc[p] \in {"idle", "done", "upd_acq", "rst_acq", "chk_enter", "chk_ret",
             "st_enter", "perm_loop", "ext_owner"}

\* C15: under fair scheduling every call that has started comes to its end
\* with the lock released (so a process that waits for the lock gets it), the
\* failed Update and the CheckQuota of a process with no store attached
\* included; and a process that is not inside a critical section, one that
\* has returned in particular, never holds the lock.
C15_EveryOperationCompletes ==
  /\ \A p \in Procs :
       (pc[p] # "idle") ~> (pc[p] = "done" /\ ~HoldsLock(p))
  /\ [](\A p \in Procs : OutsideSections(p) => ~HoldsLock(p))

\* C15 witness: a process waits for the lock while the lock is held by an
\* Update that has failed and is on its way out.
C15_Witness_WaitsBehindFailedUpdate ==
  \E p, q \in Procs :
    /\ pc[q] = "upd_err" /\ <<q, LW_EXCLUSIVE>> \in lock
    /\ pc[p] \in {"upd_acq", "rst_acq", "chk_enter", "st_enter"}
    /\ attached[p]

\* p is at a call that leaves the in-memory map: the catalog lookup of the
\* owner, the report of a quota violation, or the write of a result row to the
\* caller's tuple store
ExternalCall(p) ==
  \/ pc[p] = "ext_owner"
  \/ pc[p] = "chk_ret" /\ ~loc[p].result
  \/ pc[p] = "st_put"

\* C16 (as claimed): a process that is at a call outside the in-memory map
\* does not hold the store lock.
C16_NoLockAcrossExternalCall ==
  \A p \in Procs : ExternalCall(p) => ~HoldsLock(p)

\* the number of entries of table f
NumEntries(f) == Cardinality(DOMAIN f)

\* an entry leaves the table only in a step of init_fs_model's scan, run by a
\* process of the entry's database
RemovedOnlyByReset ==
  \A k \in DOMAIN relation_totals_map :
    k \notin DOMAIN relation_totals_map' =>
      \E p \in Procs :
        /\ pc[p] = "rst_scan" /\ <<p, LW_EXCLUSIVE>> \in lock
        /\ k.dbid = MyDatabaseId[p]
        /\ loc'[p] # loc[p]

\* an Update finds the entry of a key the table held and adds none; for a key
\* the table did not hold it adds exactly one, and every entry that was there
\* stays
OneEntryPerKey ==
  \A p \in Procs :
    UpdateEntered(p) =>
      /\ loc[p].found <=> UpdateKey(p) \in DOMAIN loc[p].before
      /\ DOMAIN relation_totals_map = DOMAIN loc[p].before \cup {UpdateKey(p)}

\* the table holds no more entries than the hash elements given out so far
WithinElements ==
  /\ NumEntries(relation_totals_map) <= hash_nelem
  /\ hash_nelem >= MAX_DB_ROLE_ENTRIES

LimitIgnored(e) == ~QuotaExceeded(<<[e EXCEPT !.totalsize = e.quota + 1]>>)

\* C18 (as claimed): for every entry an Update has written, CheckQuota takes
\* no account of the limit exactly when get_quota_status reports the limit as
\* NULL.
C18_ReadersAgreeOnNoLimit ==
  \A k \in DOMAIN relation_totals_map :
    WholeEntry(relation_totals_map[k]) =>
      (LimitIgnored(relation_totals_map[k])
         <=> StatusRow(k, relation_totals_map[k]).quota_null)

\* the hook that was active in p before init_quota_enforcement was first called
HookBeforeFirstCall(p) == IF p = 1 THEN earlier_hook ELSE NoHook

\* C19 (as claimed): once init_quota_enforcement has been called in a
\* process, however often, the active hook is the quota hook and the saved
\* previous hook is the hook that was active before the first call, never the
\* quota hook itself.
C19_InitEnforcementIdempotent ==
  \A p \in Procs :
    /\ prev_hook[p] # quota_check
    /\ Loaded(p) => prev_hook[p] = HookBeforeFirstCall(p)

\* C20 (as claimed): when a hook function lets a write pass, it has called the
\* saved previous hook if there is one, and the permission hook returns true
\* only if that hook's answer is true as well.
C20_HookChainingPreserved ==
  \A p \in Procs :
    (pc[p] = "done" /\ loc[p].op \in {"perm", "extend"}
       /\ loc[p].outcome = "allow" /\ prev_hook[p] = earlier_hook) =>
      /\ loc[p].prev_called
      /\ loc[p].op = "perm" => loc[p].earlier_allows

\* a step of p inside a call it has started
Step(p) ==
  \/ Update_Acquire(p) \/ Update_HashEnter(p) \/ Update_WriteQuota(p)
  \/ Update_WriteTotalsize(p) \/ Update_Release(p) \/ Update_ErrorCleanup(p)
  \/ Reset_Acquire(p) \/ Reset_Scan(p) \/ Reset_Release(p)
  \/ Check_Enter(p) \/ Check_Search(p) \/ Check_Release(p)
  \/ Status_Enter(p) \/ Status_Scan(p) \/ Status_PutValues(p)
  \/ Status_Release(p) \/ Status_ErrorCleanup(p)
  \/ Perm_Loop(p) \/ Perm_AfterCheck(p)
  \/ Extend_Owner(p) \/ Extend_AfterCheck(p)
  \/ Return(p)

Next ==
  \E p \in Procs :
    \/ init_quota_enforcement(p)
    \/ pg_quota_shmem_startup(p)
    \/ Update_Call(p)
    \/ Update_Acquire(p)
    \/ Update_HashEnter(p)
    \/ Update_WriteQuota(p)
    \/ Update_WriteTotalsize(p)
    \/ Update_Release(p)
    \/ Update_ErrorCleanup(p)
    \/ Reset_Call(p)
    \/ Reset_Acquire(p)
    \/ Reset_Scan(p)
    \/ Reset_Release(p)
    \/ Check_Enter(p)
    \/ Check_Search(p)
    \/ Check_Release(p)
    \/ Status_Call(p)
    \/ Status_Enter(p)
    \/ Status_Scan(p)
    \/ Status_PutValues(p)
    \/ Status_ErrorCleanup(p)
    \/ Status_Release(p)
    \/ Perm_Call(p)
    \/ Perm_Loop(p)
    \/ Perm_AfterCheck(p)
    \/ Extend_Call(p)
    \/ Extend_Owner(p)
    \/ Extend_AfterCheck(p)
    \/ Return(p)

Spec == Init /\ [][Next]_vars

SpecSerial == InitSerial /\ [][Next]_vars

SpecStatement == InitStatement /\ [][Next]_vars

\* the operating system schedules every process; a process waiting in
\* LWLockAcquire goes on once the lock stays free for it
SpecHooks == InitHooks /\ [][Next]_vars

SpecFair == InitFair /\ [][Next]_vars /\ \A p \in Procs : WF_vars(Step(p))

=============================================================================
